---- MODULE Spec2Model ----
(***************************************************************************)
(* A model of scraper_api.py: the /scrape/ route, its token check, the     *)
(* page fetcher under its retry decorator, the product extractor, the      *)
(* pagination driver and the orchestrator with its cache diff, storage and *)
(* notification.                                                           *)
(*                                                                         *)
(* Python values are modelled as follows.  A str is a sequence of          *)
(* one-character strings.  An optional value is a sequence of length 0     *)
(* (None) or 1 (the value).  A parsed document is a tree of records, one   *)
(* field per node the extractor looks for, each an optional value.         *)
(***************************************************************************)
EXTENDS Integers, Sequences, FiniteSets, TLC

None == <<>>

Some(x) == <<x>>

Opt(S) == {None} \cup {Some(x) : x \in S}

(***************************************************************************)
(* Text                                                                    *)
(***************************************************************************)

RECURSIVE LStrip(_)
LStrip(t) == IF t # <<>> /\ Head(t) = " " THEN LStrip(Tail(t)) ELSE t

RECURSIVE RStrip(_)
RStrip(t) == IF t # <<>> /\ t[Len(t)] = " " THEN RStrip(SubSeq(t, 1, Len(t) - 1)) ELSE t

\* tag.get_text(strip=True) of a node holding one text node
get_text(t) == RStrip(LStrip(t))

\* needle in hay, for str
Contains(hay, needle) ==
    \E i \in 1..(Len(hay) - Len(needle) + 1) :
        SubSeq(hay, i, i + Len(needle) - 1) = needle

NA == <<"N", "/", "A">>

ProductWord == <<"p", "r", "o", "d", "u", "c", "t">>

\* class_=lambda x: x and 'product' in x, applied to the tokens of a class attribute
class_matches(cls) ==
    /\ cls # None
    /\ \E tok \in cls[1] : tok # <<>> /\ Contains(tok, ProductWord)

(***************************************************************************)
(* Product Extractor                                                       *)
(***************************************************************************)

Ok(v) == [exc |-> FALSE, val |-> v]

AttributeError == [exc |-> TRUE, val |-> None]

\* a call's outcome: the value it returns, or the exception it raises
Exception(type) == [type |-> type]

Returns(v) == [raised |-> None, value |-> v]

Raises(type) == [raised |-> Some(Exception(type)), value |-> None]

\* the uls below a ul (itself first) and below a list of lis, in document order
RECURSIVE UlsOfUl(_), UlsOfLis(_)
UlsOfUl(ul) == <<ul>> \o UlsOfLis(ul.lis)

UlsOfLis(lis) ==
    IF lis = <<>> THEN <<>>
    ELSE (IF Head(lis).ul = None THEN <<>> ELSE UlsOfUl(Head(lis).ul[1]))
         \o UlsOfLis(Tail(lis))

RECURSIVE UlsOfSeq(_)
UlsOfSeq(uls) ==
    IF uls = <<>> THEN <<>> ELSE UlsOfUl(Head(uls)) \o UlsOfSeq(Tail(uls))

\* shop_content.find_all("ul")
find_all_ul(shop_content) == UlsOfSeq(shop_content.uls)

\* ul.find_all("li", class_=...): every matching li below the ul, in document order
RECURSIVE find_all_li(_)
find_all_li(ul) ==
    LET RECURSIVE Walk(_)
        Walk(lis) ==
            IF lis = <<>> THEN <<>>
            ELSE LET li == Head(lis) IN
                 (IF class_matches(li.class) THEN <<li>> ELSE <<>>)
                 \o (IF li.ul = None THEN <<>> ELSE find_all_li(li.ul[1]))
                 \o Walk(Tail(lis))
    IN Walk(ul.lis)

\* product.find("div", class_="product-inner clearfix"): the first such div below
\* the li, its own before those of the lis nested in it
RECURSIVE find_product_inner(_)
find_product_inner(li) ==
    IF li.product_inner # None THEN li.product_inner
    ELSE IF li.ul = None THEN None
    ELSE LET RECURSIVE First(_)
             First(lis) ==
                 IF lis = <<>> THEN None
                 ELSE LET r == find_product_inner(Head(lis)) IN
                      IF r # None THEN r ELSE First(Tail(lis))
         IN First(li.ul[1].lis)

\* line 97: .find("div", class_="mf-product-content").find("h2").find("a").get_text(strip=True)
product_inner_name(details) ==
    IF details.content = None THEN AttributeError
    ELSE IF details.content[1].h2 = None THEN AttributeError
    ELSE IF details.content[1].h2[1].a = None THEN AttributeError
    ELSE Ok(get_text(details.content[1].h2[1].a[1].text))

\* the two price nodes looked up in the other order
product_price_regular_first(details) ==
    IF details.price_box = None THEN AttributeError
    ELSE LET price_box == details.price_box[1] IN
         IF price_box.amount # None THEN Ok(get_text(price_box.amount[1]))
         ELSE IF price_box.ins # None THEN Ok(get_text(price_box.ins[1]))
         ELSE Ok(NA)

\* lines 100-106: the price of the price box, sale price first
product_price(details) ==
    IF details.price_box = None THEN AttributeError
    ELSE LET price_box == details.price_box[1] IN
         IF price_box.ins # None THEN Ok(get_text(price_box.ins[1]))
         ELSE IF price_box.amount # None THEN Ok(get_text(price_box.amount[1]))
         ELSE Ok(NA)

\* lines 109-110: .find("div", class_="mf-product-thumbnail").find("a").find("img")
\* and the data-lazy-src attribute
img_src(product_inner) ==
    IF product_inner.thumbnail = None THEN AttributeError
    ELSE IF product_inner.thumbnail[1].a = None THEN AttributeError
    ELSE LET img_tag == product_inner.thumbnail[1].a[1].img IN
         IF img_tag # None /\ img_tag[1].lazy # None
         THEN Ok(Some(img_tag[1].lazy[1]))
         ELSE Ok(None)

\* lines 90-112: the body of the inner loop for one li; val is the list of the
\* records appended (none or one)
parse_product(product) ==
    LET found == find_product_inner(product) IN
    IF found = None THEN Ok(<<>>)
    ELSE LET product_inner == found[1]
             details == product_inner.details
             name == IF details = None THEN Ok(<<>>) ELSE product_inner_name(details[1])
             price == IF details = None THEN Ok(<<>>) ELSE product_price(details[1])
             img == img_src(product_inner)
         IN IF name.exc \/ price.exc \/ img.exc THEN AttributeError
            ELSE Ok(<<[product_title |-> name.val,
                       product_price |-> price.val,
                       path_to_image |-> img.val]>>)

\* the loops of lines 88-112 over a list of lis: stops at the first exception
RECURSIVE parse_lis(_)
parse_lis(lis) ==
    IF lis = <<>> THEN Ok(<<>>)
    ELSE LET first == parse_product(Head(lis)) IN
         IF first.exc THEN AttributeError
         ELSE LET rest == parse_lis(Tail(lis)) IN
              IF rest.exc THEN AttributeError ELSE Ok(first.val \o rest.val)

RECURSIVE parse_uls(_)
parse_uls(uls) ==
    IF uls = <<>> THEN Ok(<<>>)
    ELSE LET first == parse_lis(find_all_li(Head(uls))) IN
         IF first.exc THEN AttributeError
         ELSE LET rest == parse_uls(Tail(uls)) IN
              IF rest.exc THEN AttributeError ELSE Ok(first.val \o rest.val)

\* Scraper.parse_page: the list of products, or the exception it raises
parse_page(html) ==
    IF html.shop_content = None THEN Ok(<<>>)
    ELSE parse_uls(find_all_ul(html.shop_content[1]))

(***************************************************************************)
(* Documents                                                               *)
(***************************************************************************)

Link(text) == [text |-> text]

Details(title, ins, amount) ==
    [content |-> Some([h2 |-> Some([a |-> Some(Link(title))])]),
     price_box |-> Some([ins |-> ins, amount |-> amount])]

Thumbnail(lazy) == [a |-> Some([img |-> Some([lazy |-> lazy])])]

ProductClass == Some({ProductWord, <<"f", "i", "r", "s", "t">>})

TypeProductClass == Some({<<"t", "y", "p", "e", "-">> \o ProductWord})

OtherClass == Some({<<"i", "t", "e", "m">>})

Li(class, product_inner, ul) ==
    [class |-> class, product_inner |-> product_inner, ul |-> ul]

\* a well-formed item node
Item(title, ins, amount, lazy) ==
    Li(ProductClass,
       Some([details |-> Some(Details(title, ins, amount)),
             thumbnail |-> Some(Thumbnail(lazy))]),
       None)

Doc(lis) == [blank |-> FALSE, shop_content |-> Some([uls |-> <<[lis |-> lis]>>])]

BlankDoc == [blank |-> TRUE, shop_content |-> None]

NoContainerDoc == [blank |-> FALSE, shop_content |-> None]

TitleA == <<" ", "A">>

TitleB == <<"B">>

TitleC == <<"C">>

Price9 == <<"$", "9">>

Price12 == <<"$", "1", "2", " ">>

Url == <<"u">>

\* page 1 of the shop: A on sale, B at its regular price and without a lazy image
PageAB ==
    Doc(<<Item(TitleA, Some(Price9), Some(Price12), Some(Url)),
          Item(TitleB, None, Some(Price12), None)>>)

\* three products, none of them on sale
PageABC ==
    Doc(<<Item(TitleA, None, Some(Price12), Some(Url)),
          Item(TitleB, None, Some(Price12), Some(Url)),
          Item(TitleC, None, Some(Price9), Some(Url))>>)

\* A back at its regular price
PageA12 == Doc(<<Item(TitleA, None, Some(Price12), Some(Url))>>)

\* a well-formed item, then one that lacks its thumbnail region
PageNoThumb ==
    Doc(<<Item(TitleA, Some(Price9), Some(Price12), Some(Url)),
          Li(TypeProductClass,
             Some([details |-> Some(Details(TitleB, None, Some(Price12))),
                   thumbnail |-> None]),
             None)>>)

\* the documents the site serves in the orchestration model
Catalogue == {PageAB, PageA12, PageNoThumb, BlankDoc}

(***************************************************************************)
(* Bounds and program constants                                            *)
(***************************************************************************)

\* requests served in one behaviour
MaxRuns == 2

\* largest page_limit a request carries
MaxPages == 2

\* stop_after_attempt(3)
MaxAttempts == 3

API_TOKEN == "secure_token_123"

Tokens == {API_TOKEN, "secure_token_12", ""}

\* requests.RequestException and three of its subclasses
RequestExceptions == {"ConnectionError", "Timeout", "HTTPError"}

\* HTTP statuses a GET is answered with
Statuses == {200, 503}

(***************************************************************************)
(* State                                                                   *)
(***************************************************************************)

VARIABLES
    pc,             \* position of the request being served; "idle" when none is
    runs,           \* requests received so far
    token,          \* the token of the request being served
    page_limit,     \* Scraper.page_limit
    page,           \* the loop variable of Scraper.scrape
    attempt,        \* the retry decorator's attempt number for the current page
    html,           \* what scrape_page returned for the current page
    all_products,   \* Scraper.scrape's list, scraped_data once it has returned
    existing_data,  \* what storage.load() returned
    updated_count,
    idx,            \* position of the diff loop in scraped_data
    exc,            \* the exception propagating out of the request, if any
    cache,          \* the redis database: a function from the keys present
    storage,        \* scraped_data.json: None while the file does not exist
    sent,           \* what ConsoleNotification has printed for this request
    response,       \* the value the handler returned, if it has
    attempts,       \* the GETs made for the current page, in order
    pages,          \* per page of the current scrape, in order: what became of it
    events,         \* the orchestrator's calls to storage, cache and notification
    at_start,       \* the cache and the file as the request being served found them
    previous,       \* scraped_data of the last request, if it returned
    threads,        \* the requests served at the same time, one worker thread each
    shop            \* the documents the target site serves

vars == <<pc, runs, token, page_limit, page, attempt, html, all_products,
          existing_data, updated_count, idx, exc, cache, storage, sent,
          response, attempts, pages, events, at_start, previous, threads, shop>>

locals == <<page_limit, page, attempt, html, all_products, existing_data,
            updated_count, idx>>

\* what a request leaves alone: the record of what came before it, the threads
\* of the other specification and the site
history == <<at_start, previous, threads, shop>>

Log(e) == events' = Append(events, e)

\* the entry for a call that did not return: the exception it raised
Raised(e) == [op |-> "raised", exc |-> e]

(***************************************************************************)
(* Storage, cache and notification                                         *)
(***************************************************************************)

JsonStr(s) == [t |-> "string", v |-> s]

JsonNull == [t |-> "null"]

\* json.dump of the list of product dicts
json_dump(data) ==
    [n \in 1..Len(data) |->
        <<<<"product_title", JsonStr(data[n].product_title)>>,
          <<"product_price", JsonStr(data[n].product_price)>>,
          <<"path_to_image", IF data[n].path_to_image = None THEN JsonNull
                             ELSE JsonStr(data[n].path_to_image[1])>>>>]

JsonMember(obj, key) == (CHOOSE n \in 1..Len(obj) : obj[n][1] = key)

\* null read back as the empty string
json_load_null_as_empty(text) ==
    [n \in 1..Len(text) |->
        [product_title |-> text[n][JsonMember(text[n], "product_title")][2].v,
         product_price |-> text[n][JsonMember(text[n], "product_price")][2].v,
         path_to_image |->
            LET j == text[n][JsonMember(text[n], "path_to_image")][2] IN
            IF j.t = "null" THEN Some(<<>>) ELSE Some(j.v)]]

\* json.load of such a file
json_load(text) ==
    [n \in 1..Len(text) |->
        [product_title |-> text[n][JsonMember(text[n], "product_title")][2].v,
         product_price |-> text[n][JsonMember(text[n], "product_price")][2].v,
         path_to_image |->
            LET j == text[n][JsonMember(text[n], "path_to_image")][2] IN
            IF j.t = "null" THEN None ELSE Some(j.v)]]

\* a file of scraped_data.json: its text, and whether the write that made it finished
File(text, complete) == [text |-> text, complete |-> complete]

\* JSONStorage.load, lines 39-42: json.load raises on a file cut short
storage_load ==
    IF storage = None THEN Returns(<<>>)
    ELSE IF ~storage[1].complete THEN Raises("JSONDecodeError")
    ELSE Returns(json_load(storage[1].text))

\* JSONStorage.save, lines 35-36: the file after a save that finished
storage_save(data) == Some(File(json_dump(data), TRUE))

\* open(..., "w") has truncated the file and json.dump failed before its end
storage_save_cut == Some(File(<<>>, FALSE))

\* f"{product['product_title']}_price"
cache_key(product) == product.product_title \o <<"_", "p", "r", "i", "c", "e">>

\* without decode_responses=True: the bytes of the value, which no str equals
redis_get_bytes(key) ==
    IF key \in DOMAIN cache THEN Some(<<"b'">> \o cache[key] \o <<"'">>) ELSE None

\* redis_client.get
redis_get(key) == IF key \in DOMAIN cache THEN Some(cache[key]) ELSE None

\* set(..., nx=True): a key that is present keeps its value
redis_set_if_absent(key, value) ==
    [k \in DOMAIN cache \cup {key} |->
        IF k = key /\ key \notin DOMAIN cache THEN value ELSE cache[k]]

\* set queued on a pipeline that is never executed: the database is as it was
redis_set_unexecuted(key, value) == cache

\* redis_client.set: the database after it
redis_set(key, value) ==
    [k \in DOMAIN cache \cup {key} |-> IF k = key THEN value ELSE cache[k]]

\* the two counts in each other's place
Message_swapped(scraped, updated) ==
    <<"Scraped ", updated, " products. Updated ", scraped, " products.">>

\* f"Scraped {len(scraped_data)} products. Updated {updated_count} products."
Message(scraped, updated) ==
    <<"Scraped ", scraped, " products. Updated ", updated, " products.">>

(***************************************************************************)
(* The route                                                               *)
(***************************************************************************)

HTTPException(status_code, detail) ==
    [type |-> "HTTPException", status_code |-> status_code, detail |-> detail]

\* a check that the token is there, not that it is the expected one
authenticate_any(tok) ==
    IF tok = "" THEN Some(HTTPException(401, "Unauthorized")) ELSE None

\* authenticate: the exception it raises, None when it returns
authenticate(tok) ==
    IF tok # API_TOKEN THEN Some(HTTPException(401, "Unauthorized")) ELSE None

Init ==
    /\ pc = "idle"
    /\ runs = 0
    /\ token = None
    /\ page_limit = 0
    /\ page = 0
    /\ attempt = 0
    /\ html = None
    /\ all_products = <<>>
    /\ existing_data = <<>>
    /\ updated_count = 0
    /\ idx = 0
    /\ exc = None
    /\ cache = [k \in {} |-> <<>>]
    /\ storage = None
    /\ sent = <<>>
    /\ response = None
    /\ attempts = <<>>
    /\ pages = <<>>
    /\ events = <<>>
    /\ at_start = [cache |-> cache, storage |-> storage]
    /\ previous = None
    /\ threads = <<>>
    /\ shop = Catalogue

\* POST /scrape/: the dependency is resolved, then the handler runs up to the
\* first fetch (lines 152-155, 130, 116-117)
start_scraping(tok, limit) ==
    /\ pc = "idle"
    /\ runs < MaxRuns
    /\ runs' = runs + 1
    /\ token' = Some(tok)
    /\ UNCHANGED <<response, attempts, pages, events>>
    /\ IF authenticate(tok) # None
       THEN /\ exc' = authenticate(tok)
            /\ pc' = "raise"
            /\ UNCHANGED locals
       ELSE /\ page_limit' = limit
            /\ all_products' = <<>>
            /\ page' = 1
            /\ attempt' = 1
            /\ pc' = IF 1 <= limit THEN "scrape_page" ELSE "load"
            /\ UNCHANGED <<html, existing_data, updated_count, idx, exc>>
    /\ UNCHANGED <<cache, storage, sent>>
    /\ UNCHANGED history

(***************************************************************************)
(* Page Fetcher                                                            *)
(***************************************************************************)

\* what session.get can do: answer with a status and a body, or raise
GetOutcomes ==
    {[kind |-> "response", status |-> 200, text |-> d] : d \in shop}
    \cup {[kind |-> "response", status |-> st, text |-> BlankDoc] : st \in Statuses \ {200}}
    \cup {[kind |-> "raise", type |-> e] : e \in {"ConnectionError", "Timeout", "ValueError"}}

\* how an attempt ended: the status of the answer, or the exception's type
Seen(o) == IF o.kind = "raise" THEN [kind |-> "raise", type |-> o.type]
           ELSE [kind |-> "response", status |-> o.status]

\* the body of scrape_page, lines 73-80, for one outcome of the GET
scrape_page_body(o) ==
    LET raised == IF o.kind = "raise" THEN Some(o.type)
                  ELSE IF 400 <= o.status THEN Some("HTTPError")   \* raise_for_status
                  ELSE None
    IN IF raised = None THEN Returns(Some(o.text))
       ELSE IF raised[1] \in RequestExceptions THEN Returns(None)
       ELSE Raises(raised[1])

\* the decision of @retry(stop=stop_after_attempt(3), wait=wait_fixed(5)) after an
\* attempt: TRUE to call the function again
retry_again(result, attempt_number) ==
    result.raised # None /\ attempt_number < MaxAttempts

\* one attempt of scrape_page under the decorator
scrape_page ==
    /\ pc = "scrape_page"
    /\ \E o \in GetOutcomes :
        LET result == scrape_page_body(o) IN
        /\ attempts' = Append(attempts, Seen(o))
        /\ IF retry_again(result, attempt)
           THEN /\ attempt' = attempt + 1     \* after wait_fixed(5)
                /\ UNCHANGED <<pc, html, exc>>
           ELSE IF result.raised # None
           THEN /\ exc' = Some(Exception("RetryError"))
                /\ pc' = "raise"
                /\ UNCHANGED <<attempt, html>>
           ELSE /\ html' = result.value
                /\ pc' = "loop_body"
                /\ UNCHANGED <<attempt, exc>>
    /\ UNCHANGED <<runs, token, page_limit, page, all_products, existing_data,
                   updated_count, idx, cache, storage, sent, response, pages, events>>
    /\ UNCHANGED history

(***************************************************************************)
(* Pagination Driver                                                       *)
(***************************************************************************)

\* if html:
truthy(h) == h # None /\ ~h[1].blank

\* the page's records put in front of the list
extend_front(list, items) == items \o list

\* all_products.extend(items)
extend(list, items) == list \o items

\* the loop running to range(1, page_limit + 2)
loop_body_one_more ==
    /\ pc = "loop_body"
    /\ LET r == IF truthy(html) THEN parse_page(html[1]) ELSE Ok(<<>>) IN
       IF r.exc
       THEN /\ exc' = Some(Exception("AttributeError"))
            /\ pc' = "raise"
            /\ UNCHANGED <<page, attempt, all_products, attempts, pages>>
       ELSE /\ all_products' = extend(all_products, r.val)
            /\ pages' = Append(pages, [page |-> page,
                                       fetched |-> html # None,
                                       extracted |-> IF truthy(html) THEN Some(r.val) ELSE None])
            /\ attempts' = <<>>
            /\ IF page <= page_limit
               THEN /\ page' = page + 1
                    /\ attempt' = 1
                    /\ pc' = "scrape_page"
               ELSE /\ pc' = "load"
                    /\ UNCHANGED <<page, attempt>>
            /\ UNCHANGED exc
    /\ UNCHANGED <<runs, token, page_limit, html, existing_data, updated_count,
                   idx, cache, storage, sent, response, events>>
    /\ UNCHANGED history

\* lines 119-120 for the page just fetched, then the next iteration of line 117
loop_body ==
    /\ pc = "loop_body"
    /\ LET r == IF truthy(html) THEN parse_page(html[1]) ELSE Ok(<<>>) IN
       IF r.exc
       THEN /\ exc' = Some(Exception("AttributeError"))
            /\ pc' = "raise"
            /\ UNCHANGED <<page, attempt, all_products, attempts, pages>>
       ELSE /\ all_products' = extend(all_products, r.val)
            /\ pages' = Append(pages, [page |-> page,
                                       fetched |-> html # None,
                                       extracted |-> IF truthy(html) THEN Some(r.val) ELSE None])
            /\ attempts' = <<>>
            /\ IF page < page_limit
               THEN /\ page' = page + 1
                    /\ attempt' = 1
                    /\ pc' = "scrape_page"
               ELSE /\ pc' = "load"
                    /\ UNCHANGED <<page, attempt>>
            /\ UNCHANGED exc
    /\ UNCHANGED <<runs, token, page_limit, html, existing_data, updated_count,
                   idx, cache, storage, sent, response, events>>
    /\ UNCHANGED history

(***************************************************************************)
(* Scrape Orchestrator                                                     *)
(***************************************************************************)

\* how a call to the file system or to redis goes
IoOutcomes == {"ok", "OSError"}

RedisOutcomes == {"ok", "ConnectionError"}

\* a failed load answered with the empty list, as a missing file is
load_default_on_failure ==
    /\ pc = "load"
    /\ \E io \in IoOutcomes :
        LET loaded == IF io = "ok" THEN storage_load ELSE Raises(io) IN
        /\ events' = IF loaded.raised # None
                     THEN events \o <<[op |-> "load"], Raised(loaded.raised[1])>>
                     ELSE Append(events, [op |-> "load"])
        /\ existing_data' = IF loaded.raised # None THEN <<>> ELSE loaded.value
        /\ updated_count' = 0
        /\ idx' = 1
        /\ pc' = IF all_products = <<>> THEN "save" ELSE "diff"
        /\ UNCHANGED exc
    /\ UNCHANGED <<runs, token, page_limit, page, attempt, html, all_products,
                   cache, storage, sent, response, attempts, pages>>
    /\ UNCHANGED history

\* lines 133-134
load ==
    /\ pc = "load"
    /\ \E io \in IoOutcomes :
        LET loaded == IF io = "ok" THEN storage_load ELSE Raises(io) IN
        IF loaded.raised # None
        THEN /\ exc' = loaded.raised
             /\ pc' = "raise"
             /\ events' = events \o <<[op |-> "load"], Raised(loaded.raised[1])>>
             /\ UNCHANGED <<existing_data, updated_count, idx>>
        ELSE /\ Log([op |-> "load"])
             /\ existing_data' = loaded.value
             /\ updated_count' = 0
             /\ idx' = 1
             /\ pc' = IF all_products = <<>> THEN "save" ELSE "diff"
             /\ UNCHANGED exc
    /\ UNCHANGED <<runs, token, page_limit, page, attempt, html, all_products,
                   cache, storage, sent, response, attempts, pages>>
    /\ UNCHANGED history

\* an identity test in place of the comparison: never equal
price_changed_identity(cached_price, product) ==
    cached_price = None \/ cached_price # None

\* a key that is absent is not taken as a change
price_changed_if_present(cached_price, product) ==
    cached_price # None /\ cached_price[1] # product.product_price

\* a record the loaded dataset does not hold is taken as a change too
price_changed_or_unstored(cached_price, product) ==
    \/ cached_price = None
    \/ cached_price[1] # product.product_price
    \/ \A n \in DOMAIN existing_data : existing_data[n] # product

\* line 140
price_changed(cached_price, product) ==
    cached_price = None \/ cached_price[1] # product.product_price

\* one iteration of the loop of lines 136-142
diff ==
    /\ pc = "diff"
    /\ LET product == all_products[idx]
           key == cache_key(product)
           cached_price == redis_get(key)
           got == [op |-> "cache_get", key |-> key]
           put == [op |-> "cache_set", key |-> key, value |-> product.product_price]
       IN \E get \in RedisOutcomes, set \in RedisOutcomes :
          IF get # "ok"
          THEN /\ set = "ok"
               /\ exc' = Some(Exception(get))
               /\ pc' = "raise"
               /\ events' = events \o <<got, Raised(Exception(get))>>
               /\ UNCHANGED <<cache, updated_count, idx>>
          ELSE IF ~price_changed(cached_price, product)
          THEN /\ set = "ok"
               /\ events' = Append(events, got)
               /\ idx' = idx + 1
               /\ pc' = IF idx < Len(all_products) THEN "diff" ELSE "save"
               /\ UNCHANGED <<cache, updated_count, exc>>
          ELSE IF set # "ok"
          THEN /\ exc' = Some(Exception(set))
               /\ pc' = "raise"
               /\ events' = events \o <<got, put, Raised(Exception(set))>>
               /\ UNCHANGED <<cache, updated_count, idx>>
          ELSE /\ cache' = redis_set(key, product.product_price)
               /\ updated_count' = updated_count + 1
               /\ events' = events \o <<got, put>>
               /\ idx' = idx + 1
               /\ pc' = IF idx < Len(all_products) THEN "diff" ELSE "save"
               /\ UNCHANGED exc
    /\ UNCHANGED <<runs, token, page_limit, page, attempt, html, all_products,
                   existing_data, storage, sent, response, attempts, pages>>
    /\ UNCHANGED history

\* >= in place of >
must_save_from_zero(count) == count >= 0

\* line 144
must_save(count) == count > 0

\* lines 144-145
save ==
    /\ pc = "save"
    /\ IF must_save(updated_count)
       THEN \E io \in IoOutcomes, opened \in BOOLEAN :
                IF io = "ok"
                THEN /\ opened
                     /\ Log([op |-> "save", data |-> all_products])
                     /\ storage' = storage_save(all_products)
                     /\ pc' = "notify"
                     /\ UNCHANGED exc
                ELSE /\ events' = events \o <<[op |-> "save", data |-> all_products],
                                             Raised(Exception(io))>>
                     /\ storage' = IF opened THEN storage_save_cut ELSE storage
                     /\ exc' = Some(Exception(io))
                     /\ pc' = "raise"
       ELSE /\ pc' = "notify"
            /\ UNCHANGED <<storage, events, exc>>
    /\ UNCHANGED <<runs, token, page_limit, page, attempt, html, all_products,
                   existing_data, updated_count, idx, cache, sent, response,
                   attempts, pages>>
    /\ UNCHANGED history

\* lines 147-148
notify ==
    /\ pc = "notify"
    /\ sent' = Append(sent, Message(Len(all_products), updated_count))
    /\ Log([op |-> "send", message |-> Message(Len(all_products), updated_count)])
    /\ response' = Some([message |-> Message(Len(all_products), updated_count)])
    /\ pc' = "return"
    /\ UNCHANGED <<runs, token, page_limit, page, attempt, html, all_products,
                   existing_data, updated_count, idx, exc, cache, storage,
                   attempts, pages>>
    /\ UNCHANGED history

\* what the framework answers once the handler has returned or raised: the
\* handler's value, the HTTPException's status, or 500 for any other exception
http_response ==
    IF pc = "return" THEN [status_code |-> 200, body |-> response[1]]
    ELSE IF exc[1].type = "HTTPException"
    THEN [status_code |-> exc[1].status_code, body |-> [detail |-> exc[1].detail]]
    ELSE [status_code |-> 500, body |-> [detail |-> "Internal Server Error"]]

\* the request is answered and its objects are gone
respond ==
    /\ pc \in {"return", "raise"}
    /\ pc' = "idle"
    /\ token' = None
    /\ exc' = None
    /\ response' = None
    /\ sent' = <<>>
    /\ attempts' = <<>>
    /\ pages' = <<>>
    /\ events' = <<>>
    /\ page_limit' = 0
    /\ page' = 0
    /\ attempt' = 0
    /\ html' = None
    /\ all_products' = <<>>
    /\ existing_data' = <<>>
    /\ updated_count' = 0
    /\ idx' = 0
    /\ at_start' = [cache |-> cache, storage |-> storage]
    /\ previous' = IF pc = "return" THEN Some(all_products) ELSE None
    /\ UNCHANGED <<runs, cache, storage, threads, shop>>

Next ==
    \/ \E tok \in Tokens, limit \in 0..MaxPages : start_scraping(tok, limit)
    \/ scrape_page
    \/ loop_body
    \/ load
    \/ diff
    \/ save
    \/ notify
    \/ respond

Spec == Init /\ [][Next]_vars

(***************************************************************************)
(* The extractor on its own: one page of every shape is parsed             *)
(***************************************************************************)

\* item nodes in one list of the documents parsed
MaxItems == 2

SeqsUpTo(S, n) == UNION {[1..k -> S] : k \in 0..n}

Links == {Link(TitleA)}

H2s == [a : Opt(Links)]

Contents == [h2 : Opt(H2s)]

PriceBoxes == [ins : Opt({Price9}), amount : Opt({Price12})]

DetailsNodes == [content : Opt(Contents), price_box : Opt(PriceBoxes)]

Imgs == [lazy : Opt({Url})]

ThumbLinks == [img : Opt(Imgs)]

Thumbnails == [a : Opt(ThumbLinks)]

Inners == [details : Opt(DetailsNodes), thumbnail : Opt(Thumbnails)]

\* an li with any combination of the nodes below it present or absent
AnyLis ==
    {Li(c, inner, None) :
        c \in {ProductClass, TypeProductClass, OtherClass, None}, inner \in Opt(Inners)}

SampleLis ==
    {Item(TitleA, Some(Price9), Some(Price12), Some(Url)),
     Item(TitleB, None, Some(Price12), None)}

\* lists of well-formed items in which at most one li is arbitrary
ParseLists ==
    UNION {{s} \cup {[s EXCEPT ![j] = x] : j \in DOMAIN s, x \in AnyLis} :
              s \in SeqsUpTo(SampleLis, MaxItems)}

\* an li that holds a list of its own after its product region
NestingLis ==
    {Li(ProductClass, inner, Some([lis |-> <<x>>])) :
        inner \in {None, Item(TitleA, Some(Price9), None, Some(Url)).product_inner},
        x \in SampleLis}

\* documents of two lists, and documents with a list nested in an item
GroupedDocs ==
    {[blank |-> FALSE, shop_content |-> Some([uls |-> <<[lis |-> a], [lis |-> b]>>])] :
        a \in SeqsUpTo(SampleLis, 1), b \in SeqsUpTo(SampleLis \cup NestingLis, 1)}

ParseDocs == {Doc(l) : l \in ParseLists} \cup GroupedDocs \cup {NoContainerDoc, BlankDoc}

\* scrape_page has just returned page 1 of 1
InitParse ==
    /\ pc = "loop_body"
    /\ runs = 1
    /\ token = Some(API_TOKEN)
    /\ page_limit = 1
    /\ page = 1
    /\ attempt = 1
    /\ html \in {Some(d) : d \in ParseDocs}
    /\ all_products = <<>>
    /\ existing_data = <<>>
    /\ updated_count = 0
    /\ idx = 0
    /\ exc = None
    /\ cache = [k \in {} |-> <<>>]
    /\ storage = None
    /\ sent = <<>>
    /\ response = None
    /\ attempts = <<[kind |-> "response", status |-> 200]>>
    /\ pages = <<>>
    /\ events = <<>>
    /\ at_start = [cache |-> cache, storage |-> storage]
    /\ previous = None
    /\ threads = <<>>
    /\ shop = Catalogue

NextParse == loop_body

SpecParse == InitParse /\ [][NextParse]_vars

(***************************************************************************)
(* The requests against a site with a page of three products               *)
(***************************************************************************)

\* what the site serves: three products, and a page that lists two of them
\* again, one at a new price
Storefront == {PageABC, PageAB}

InitEndToEnd ==
    /\ pc = "idle"
    /\ runs = 0
    /\ token = None
    /\ page_limit = 0
    /\ page = 0
    /\ attempt = 0
    /\ html = None
    /\ all_products = <<>>
    /\ existing_data = <<>>
    /\ updated_count = 0
    /\ idx = 0
    /\ exc = None
    /\ cache = [k \in {} |-> <<>>]
    /\ storage = None
    /\ sent = <<>>
    /\ response = None
    /\ attempts = <<>>
    /\ pages = <<>>
    /\ events = <<>>
    /\ at_start = [cache |-> cache, storage |-> storage]
    /\ previous = None
    /\ threads = <<>>
    /\ shop = Storefront

SpecEndToEnd == InitEndToEnd /\ [][Next]_vars

(***************************************************************************)
(* Requests served at the same time. The handler is a plain def, which the  *)
(* framework runs in a thread of its pool per request: the threads share    *)
(* the redis database, the file and the console.                            *)
(***************************************************************************)

\* requests in flight together
Workers == 2

\* what scrape() returned to a thread
ScrapeResults == {parse_page(PageAB).val, parse_page(PageA12).val}

\* the cache the threads start from: empty, or A at its regular price
StartCaches ==
    {[k \in {} |-> <<>>],
     [k \in {cache_key(parse_page(PageA12).val[1])} |-> <<"$", "1", "2">>]}

\* a thread at line 136, with scrape() and storage.load() behind it
Thread(scraped_data) ==
    [pc |-> IF scraped_data = <<>> THEN "save" ELSE "get",
     scraped_data |-> scraped_data,
     idx |-> 1,
     cached_price |-> None,
     updated_count |-> 0,
     writes |-> <<>>,
     response |-> None]

InitThreads ==
    /\ pc = "idle"
    /\ runs = Workers
    /\ token = None
    /\ page_limit = 0
    /\ page = 0
    /\ attempt = 0
    /\ html = None
    /\ all_products = <<>>
    /\ existing_data = <<>>
    /\ updated_count = 0
    /\ idx = 0
    /\ exc = None
    /\ cache \in StartCaches
    /\ storage = None
    /\ sent = <<>>
    /\ response = None
    /\ attempts = <<>>
    /\ pages = <<>>
    /\ events = <<>>
    /\ at_start = [cache |-> cache, storage |-> storage]
    /\ previous = None
    /\ threads \in [1..Workers -> {Thread(d) : d \in ScrapeResults}]
    /\ shop = Catalogue

\* what the threads leave alone: the variables of the request served alone
alone == <<pc, runs, token, locals, exc, response, attempts, pages, events,
           at_start, previous, shop>>

\* the record a thread's loop is at
product_of(t) == threads[t].scraped_data[threads[t].idx]

\* lines 137-138 in thread t
thread_get(t) ==
    /\ threads[t].pc = "get"
    /\ threads' = [threads EXCEPT ![t].cached_price = redis_get(cache_key(product_of(t))),
                                  ![t].pc = "compare"]
    /\ UNCHANGED <<cache, storage, sent>>
    /\ UNCHANGED alone

\* lines 140-142 in thread t, and the step to the next record
thread_compare(t) ==
    /\ threads[t].pc = "compare"
    /\ LET product == product_of(t)
           key == cache_key(product)
           changed == price_changed(threads[t].cached_price, product)
           next == IF threads[t].idx < Len(threads[t].scraped_data) THEN "get" ELSE "save"
       IN /\ cache' = IF changed THEN redis_set(key, product.product_price) ELSE cache
          /\ threads' = [threads EXCEPT
                 ![t].updated_count = IF changed THEN @ + 1 ELSE @,
                 ![t].writes = IF changed THEN Append(@, key) ELSE @,
                 ![t].idx = @ + 1,
                 ![t].cached_price = None,
                 ![t].pc = next]
    /\ UNCHANGED <<storage, sent>>
    /\ UNCHANGED alone

\* lines 144-145 in thread t
thread_save(t) ==
    /\ threads[t].pc = "save"
    /\ storage' = IF must_save(threads[t].updated_count)
                  THEN storage_save(threads[t].scraped_data)
                  ELSE storage
    /\ threads' = [threads EXCEPT ![t].pc = "notify"]
    /\ UNCHANGED <<cache, sent>>
    /\ UNCHANGED alone

\* lines 147-148 in thread t
thread_notify(t) ==
    /\ threads[t].pc = "notify"
    /\ LET message == Message(Len(threads[t].scraped_data), threads[t].updated_count)
       IN /\ sent' = Append(sent, message)
          /\ threads' = [threads EXCEPT ![t].response = Some([message |-> message]),
                                        ![t].pc = "return"]
    /\ UNCHANGED <<cache, storage>>
    /\ UNCHANGED alone

NextThreads ==
    \/ \E t \in DOMAIN threads : thread_get(t)
    \/ \E t \in DOMAIN threads : thread_compare(t)
    \/ \E t \in DOMAIN threads : thread_save(t)
    \/ \E t \in DOMAIN threads : thread_notify(t)

SpecThreads == InitThreads /\ [][NextThreads]_vars

(***************************************************************************)
(* Properties                                                              *)
(***************************************************************************)

\* an attempt that ended with the page's markup
Succeeded(a) == a.kind = "response" /\ a.status < 400

\* an attempt that ended in a connection error, a timeout or a non-2xx status
NetworkFailure(a) ==
    \/ a.kind = "response" /\ a.status >= 400
    \/ a.kind = "raise" /\ a.type \in RequestExceptions

\* positions at which Scraper.scrape has returned to scrape_and_store
AfterScrape == {"load", "diff", "save", "notify", "return"}

PageResult(p) == IF p.extracted = None THEN <<>> ELSE p.extracted[1]

RECURSIVE PageRecords(_)
PageRecords(ps) ==
    IF ps = <<>> THEN <<>> ELSE PageResult(Head(ps)) \o PageRecords(Tail(ps))

RECURSIVE SumLen(_)
SumLen(ps) ==
    IF ps = <<>> THEN 0 ELSE Len(PageResult(Head(ps))) + SumLen(Tail(ps))

IsSave(e) == e.op = "save"

IsSend(e) == e.op = "send"

IsCacheSet(e) == e.op = "cache_set"

IsCacheGet(e) == e.op = "cache_get"

\* the events a step has added to the orchestrator's calls
NewEvents == SubSeq(events', Len(events) + 1, Len(events'))

\* C1: a page whose attempt ends in a network-level failure is attempted again
\* until an attempt succeeds or 3 attempts have been made: no page is attempted
\* more than 3 times, none is attempted again after a success, and scrape_page
\* reports a page as failed (returns None) only after 3 failed attempts.
C1_RetryOnNetworkFailure ==
    /\ Len(attempts) <= MaxAttempts
    /\ \A k \in 1..(Len(attempts) - 1) : ~Succeeded(attempts[k])
    /\ (pc = "loop_body" /\ html = None) => Len(attempts) = MaxAttempts

\* C2: whatever pages end in a network-level failure, scrape() does not raise
\* (it raises only when a fetch ended in something else than a success or a
\* network-level failure); a failed page is reported as None and contributes no
\* record, every page up to page_limit is still processed, and the result holds
\* the records of every fetched page.
C2_FaultIsolation ==
    /\ (pc = "raise" /\ token = Some(API_TOKEN) /\ events = <<>>)
          => \E k \in DOMAIN attempts :
                ~Succeeded(attempts[k]) /\ ~NetworkFailure(attempts[k])
    /\ \A k \in DOMAIN pages : ~pages[k].fetched => pages[k].extracted = None
    /\ pc \in AfterScrape =>
          /\ Len(pages) = page_limit
          /\ all_products = PageRecords(pages)

\* C3: once scrape() has returned, its result is the concatenation of the
\* per-page results in increasing page number: one entry per page 1..page_limit,
\* the length is the sum of the per-page counts, and the records of page k sit
\* together right after those of the pages before it; the last page's result is
\* what the extractor made of its markup.
C3_OrderPreservation ==
    pc \in AfterScrape =>
        /\ Len(pages) = page_limit
        /\ \A k \in DOMAIN pages : pages[k].page = k
        /\ all_products = PageRecords(pages)
        /\ Len(all_products) = SumLen(pages)
        /\ \A k \in DOMAIN pages :
              LET before == SumLen(SubSeq(pages, 1, k - 1)) IN
              SubSeq(all_products, before + 1, before + Len(PageResult(pages[k])))
                  = PageResult(pages[k])
        /\ truthy(html) => pages[Len(pages)].extracted = Some(parse_page(html[1]).val)

\* two pages with different, non-empty results have been concatenated
C3_Witness ==
    /\ pc = "load"
    /\ Len(pages) = 2
    /\ Len(PageResult(pages[1])) = 2
    /\ Len(PageResult(pages[2])) = 1
    /\ all_products[3] # all_products[1]

\* C4: a diff step on a record whose key is in the cache with the record's price
\* leaves updated_count and the cache as they are and issues no cache write.
C4_UnchangedPrice ==
    [][(/\ pc = "diff"
        /\ cache_key(all_products[idx]) \in DOMAIN cache
        /\ cache[cache_key(all_products[idx])] = all_products[idx].product_price)
       => /\ updated_count' = updated_count
          /\ cache' = cache
          /\ SelectSeq(NewEvents, IsCacheSet) = <<>>]_vars

\* the record just processed was read from the cache and not written
C4_Witness ==
    /\ pc \in {"diff", "save"}
    /\ idx > 1
    /\ events[Len(events)] = [op |-> "cache_get", key |-> cache_key(all_products[idx - 1])]
    /\ cache[cache_key(all_products[idx - 1])] = all_products[idx - 1].product_price

\* C5: a diff step that processes a record whose key is absent from the cache
\* increments updated_count by one and writes the record's price under the key.
C5_ColdStart ==
    [][(/\ pc = "diff"
        /\ cache_key(all_products[idx]) \notin DOMAIN cache
        /\ pc' # "raise")
       => /\ updated_count' = updated_count + 1
          /\ cache_key(all_products[idx]) \in DOMAIN cache'
          /\ cache'[cache_key(all_products[idx])] = all_products[idx].product_price
          /\ SelectSeq(NewEvents, IsCacheSet)
                = <<[op |-> "cache_set", key |-> cache_key(all_products[idx]),
                     value |-> all_products[idx].product_price]>>]_vars

\* the first record of a run against an empty cache has been counted and written
C5_Witness ==
    /\ pc = "diff"
    /\ idx = 2
    /\ updated_count = 1
    /\ DOMAIN cache = {cache_key(all_products[1])}
    /\ cache[cache_key(all_products[1])] = all_products[1].product_price

\* C6: in a run, Storage.save is called at most once, only with the whole
\* scraped_data, and once the diff loop is over it has been called exactly when
\* updated_count > 0, after which the file reads back as scraped_data; a save
\* step with updated_count = 0 leaves the storage as it is.
C6_ConditionalPersistence ==
    /\ [](LET saves == SelectSeq(events, IsSave) IN
          /\ Len(saves) <= 1
          /\ Len(saves) = 1 => updated_count > 0 /\ saves[1].data = all_products
          /\ pc \in {"notify", "return"} =>
                /\ Len(saves) = 1 <=> updated_count > 0
                /\ Len(saves) = 1 =>
                      /\ storage # None
                      /\ storage[1].complete
                      /\ json_load(storage[1].text) = all_products)
    /\ [][(pc = "save" /\ updated_count = 0) => storage' = storage]_vars

\* a run saved a list that holds a changed record and an unchanged one
C6_Witness ==
    /\ pc = "return"
    /\ 0 < updated_count
    /\ updated_count < Len(all_products)
    /\ SelectSeq(events, IsSave) = <<[op |-> "save", data |-> all_products]>>
    /\ json_load(storage[1].text) = all_products

\* C7: a run that completes has sent exactly one notification, as its last call,
\* after every cache write and any save; the notification and the returned
\* summary are the same message, carrying the length of scraped_data and the
\* number of records counted as updated; no notification is sent before.
C7_NotificationAndSummary ==
    LET sends == SelectSeq(events, IsSend) IN
    /\ pc # "return" => sends = <<>> /\ sent = <<>> /\ response = None
    /\ pc = "return" =>
          /\ Len(sends) = 1
          /\ events[Len(events)] = sends[1]
          /\ sent = <<sends[1].message>>
          /\ response = Some([message |-> sent[1]])
          /\ sent[1][2] = Len(all_products)
          /\ sent[1][4] = updated_count
          /\ updated_count = Len(SelectSeq(events, IsCacheSet))

\* a run in which nothing changed has still sent its notification
C7_Witness ==
    /\ pc = "return"
    /\ updated_count = 0
    /\ Len(all_products) = 2
    /\ sent = <<<<"Scraped ", 2, " products. Updated ", 0, " products.">>>>

\* C8: a request whose token differs from API_TOKEN is answered 401 without any
\* work: no page fetched, no call to cache, storage or notification, cache and
\* storage untouched; only the matching token gets past the gate.
C8_AuthorizationGate ==
    /\ []((token # None /\ token # Some(API_TOKEN)) =>
            /\ pc = "raise"
            /\ http_response = [status_code |-> 401, body |-> [detail |-> "Unauthorized"]]
            /\ attempts = <<>>
            /\ pages = <<>>
            /\ events = <<>>
            /\ sent = <<>>)
    /\ [](pc \notin {"idle", "raise"} => token = Some(API_TOKEN))
    /\ [][(token' # None /\ token' # Some(API_TOKEN)) => UNCHANGED <<cache, storage>>]_vars

\* a wrong token was rejected while the cache and the storage held data
C8_Witness ==
    /\ pc = "raise"
    /\ token = Some("secure_token_12")
    /\ DOMAIN cache # {}
    /\ storage # None

\* C9: extracting an item never raises: parse_page raises no AttributeError, and
\* a page of a well-formed item followed by one without its thumbnail region
\* yields two records, the second with its title and price and no image.
C9_GracefulDegradation ==
    /\ ~(pc = "raise" /\ exc = Some(Exception("AttributeError")))
    /\ (/\ pc = "load"
        /\ Len(pages) = 1
        /\ html = Some(Doc(<<Item(TitleA, Some(Price9), Some(Price12), Some(Url)),
                             Li(ProductClass,
                                Some([details |-> Some(Details(TitleA, None, Some(Price12))),
                                      thumbnail |-> None]),
                                None)>>)))
       => /\ Len(all_products) = 2
          /\ all_products[2] = [product_title |-> <<"A">>,
                                product_price |-> <<"$", "1", "2">>,
                                path_to_image |-> None]

\* the li of a flat list that the extractor makes a record of
YieldsRecord(li) == class_matches(li.class) /\ li.product_inner # None

\* C10: for a page of one flat list, each record's price is the text of the
\* item's sale-price node when it has one, else the text of its regular price
\* amount node when it has one, else "N/A".
C10_PriceFallback ==
    (/\ pc = "load"
     /\ Len(pages) = 1
     /\ truthy(html)
     /\ html[1].shop_content # None
     /\ Len(html[1].shop_content[1].uls) = 1
     /\ \A k \in DOMAIN html[1].shop_content[1].uls[1].lis :
           html[1].shop_content[1].uls[1].lis[k].ul = None)
    => LET items == SelectSeq(html[1].shop_content[1].uls[1].lis, YieldsRecord) IN
       /\ Len(all_products) = Len(items)
       /\ \A k \in DOMAIN items :
             LET details == items[k].product_inner[1].details IN
             (details # None /\ details[1].price_box # None) =>
                 LET price_box == details[1].price_box[1] IN
                 all_products[k].product_price =
                     IF price_box.ins # None THEN get_text(price_box.ins[1])
                     ELSE IF price_box.amount # None THEN get_text(price_box.amount[1])
                     ELSE <<"N", "/", "A">>

\* an item with both prices gave its sale price, one with neither gave "N/A"
C10_Witness ==
    /\ pc = "load"
    /\ Len(pages) = 1
    /\ Len(all_products) = 2
    /\ html = Some(Doc(<<Item(TitleA, Some(Price9), Some(Price12), Some(Url)),
                         Item(TitleA, None, None, Some(Url))>>))
    /\ all_products[1].product_price = <<"$", "9">>
    /\ all_products[2].product_price = <<"N", "/", "A">>

\* the records of the run whose keys the cache did not hold when the run began
AllNew ==
    \A n \in DOMAIN all_products :
        cache_key(all_products[n]) \notin DOMAIN at_start.cache

\* no record of the run repeats the title and the price of another
NoRepeat ==
    \A m, n \in DOMAIN all_products :
        (/\ m # n
         /\ all_products[m].product_title = all_products[n].product_title)
            => all_products[m].product_price # all_products[n].product_price

\* the run has returned: every record was counted, the whole list was saved by
\* one call if there is any record, and one notification with the counts sent
CountedSavedNotified ==
    /\ updated_count = Len(all_products)
    /\ response = Some([message |-> Message(Len(all_products), Len(all_products))])
    /\ SelectSeq(events, IsSave) =
           IF all_products = <<>> THEN <<>>
           ELSE <<[op |-> "save", data |-> all_products]>>
    /\ all_products # <<>> => storage = storage_save(all_products)
    /\ sent = <<Message(Len(all_products), Len(all_products))>>
    /\ Len(SelectSeq(events, IsSend)) = 1

\* C11 as stated: a run whose fetched pages yield k products, all with keys
\* absent from the cache when it began, returns total_scraped = updated_count
\* = k, saves those records by one call and sends one notification.
C11_AllNewAllCounted ==
    (pc = "return" /\ AllNew) => CountedSavedNotified

\* C11, amended: a run whose fetched pages yield k products, all with keys
\* absent from the cache when it began and no two with the same title and the
\* same price, returns total_scraped = updated_count = k, saves exactly
\* those k records by one call to save and sends exactly one notification; a
\* page whose fetch failed adds nothing and takes nothing away.
C11_EndToEnd ==
    (pc = "return" /\ AllNew /\ NoRepeat) =>
        /\ CountedSavedNotified
        /\ all_products = PageRecords(pages)

\* page_limit = 2, page 1 yields 3 new products, the fetch of page 2 fails: the
\* run returns 3 and 3, has saved the 3 records once and notified once
C11_Witness ==
    /\ pc = "return"
    /\ page_limit = 2
    /\ at_start.cache = [k \in {} |-> <<>>]
    /\ pages[1].fetched /\ Len(PageResult(pages[1])) = 3
    /\ ~pages[2].fetched
    /\ updated_count = 3
    /\ response = Some([message |-> Message(3, 3)])
    /\ Len(SelectSeq(events, IsSave)) = 1
    /\ storage = storage_save(PageResult(pages[1]))
    /\ sent = <<Message(3, 3)>>

IsRaised(e) == e.op = "raised"

\* C12: a call to Storage.load, Storage.save, or the cache's get or set that
\* raises is the last thing the run does: the exception it raised is the one
\* that leaves scrape_and_store, the request is answered 500 without a count
\* summary, and no notification has been or will be sent for it.
C12_FailuresSurfaced ==
    /\ [](\A n \in DOMAIN events :
            IsRaised(events[n]) =>
                /\ n = Len(events)
                /\ events[n - 1].op \in {"load", "save", "cache_get", "cache_set"}
                /\ pc = "raise"
                /\ exc = Some(events[n].exc)
                /\ response = None
                /\ sent = <<>>
                /\ SelectSeq(events, IsSend) = <<>>
                /\ http_response.status_code = 500
                /\ "message" \notin DOMAIN http_response.body)
    /\ [][(pc = "raise" /\ pc' # "raise") => (pc' = "idle" /\ sent = <<>>)]_vars

\* the save of a run that counted an update has raised
C12_Witness ==
    /\ pc = "raise"
    /\ updated_count > 0
    /\ Len(events) >= 2
    /\ events[Len(events)] = Raised(Exception("OSError"))
    /\ events[Len(events) - 1] = [op |-> "save", data |-> all_products]
    /\ Len(SelectSeq(events, IsCacheSet)) = updated_count

\* how many times thread t counted key k as updated
Counted(t, k) == Len(SelectSeq(threads[t].writes, LAMBDA w : w = k))

\* threads t and u each scraped the title of key k once, at the same price,
\* which is not the one the cache held, and no other thread scraped the title
SameNewPrice(t, u, k) ==
    LET of(x) == SelectSeq(threads[x].scraped_data, LAMBDA r : cache_key(r) = k) IN
    /\ Len(of(t)) = 1 /\ Len(of(u)) = 1
    /\ of(t)[1].product_price = of(u)[1].product_price
    /\ k \in DOMAIN at_start.cache => at_start.cache[k] # of(t)[1].product_price
    /\ \A x \in DOMAIN threads \ {t, u} : of(x) = <<>>

\* C13: the read-compare-write of two requests served at the same time never
\* overlap on one cache key, so no two of them hold the same stale value; and
\* when both have scraped the same new price for a title, once both are done
\* exactly one of them has counted the change and the cache holds that price.
C13_PerKeyAtomicity ==
    \A t, u \in DOMAIN threads :
        t # u =>
            /\ (threads[t].pc = "compare" /\ threads[u].pc = "compare")
                    => cache_key(product_of(t)) # cache_key(product_of(u))
            /\ \A k \in DOMAIN cache :
                  (/\ threads[t].pc = "return"
                   /\ threads[u].pc = "return"
                   /\ SameNewPrice(t, u, k))
                      => /\ Counted(t, k) + Counted(u, k) = 1
                         /\ cache[k] = SelectSeq(threads[t].scraped_data,
                                                 LAMBDA r : cache_key(r) = k)[1].product_price

\* C14: scrape() calls scrape_page for the pages 1..page_limit, one after the
\* other and for no other page: every GET is for the page right after the ones
\* already dealt with, a page is dealt with once, after its fetch has ended,
\* and before the next page's first GET; parse_page runs only on a page whose
\* fetch returned markup; and when scrape() has returned, every page from 1 to
\* page_limit has been dealt with.
C14_SequentialPagination ==
    /\ [](/\ \A k \in DOMAIN pages :
                /\ pages[k].page = k
                /\ k <= page_limit
                /\ pages[k].extracted # None => pages[k].fetched
          /\ (pc \in {"scrape_page", "loop_body"} \/ attempts # <<>>) =>
                /\ page = Len(pages) + 1
                /\ page \in 1..page_limit
          /\ pc \in AfterScrape => Len(pages) = page_limit)
    /\ [][(attempts' # attempts /\ attempts' # <<>>) =>
              /\ pc = "scrape_page"
              /\ page = Len(pages) + 1
              /\ page \in 1..page_limit
              /\ Len(attempts') = Len(attempts) + 1
              /\ pages' = pages]_vars
    /\ [][(pages' # pages /\ pages' # <<>>) =>
              /\ pc = "loop_body"
              /\ attempts # <<>>
              /\ pages' = Append(pages, pages'[Len(pages')])
              /\ pages'[Len(pages')].page = page
              /\ pages'[Len(pages')].fetched = Succeeded(attempts[Len(attempts)])
              /\ pages'[Len(pages')].extracted # None => html # None
              /\ attempts' = <<>>]_vars

\* the fetch of page 1 failed and the page was not parsed; page 2 was fetched
\* and parsed after it
C14_Witness ==
    /\ pc = "load"
    /\ page_limit = 2
    /\ ~pages[1].fetched /\ pages[1].extracted = None
    /\ pages[2].fetched /\ pages[2].extracted # None
    /\ Len(pages[2].extracted[1]) = 2

\* the keys of the records of the run
ScrapedKeys == {cache_key(all_products[n]) : n \in DOMAIN all_products}

\* the price of the last record of the run whose key is k
LastPrice(k) ==
    LET at == {n \in DOMAIN all_products : cache_key(all_products[n]) = k}
        last == CHOOSE n \in at : \A m \in at : m <= n
    IN all_products[last].product_price

\* C15: once the loop over the records of a run is over, the cache holds under
\* the key of every scraped title the price of the last record with that title
\* and under every other key what it held when the run began, and it was
\* written as many times as updated_count says; each write is for the record
\* being processed, whose key was absent or held another value just before.
C15_CacheAfterRun ==
    /\ [](pc \in {"save", "notify", "return"} =>
            /\ DOMAIN cache = DOMAIN at_start.cache \cup ScrapedKeys
            /\ \A k \in ScrapedKeys : cache[k] = LastPrice(k)
            /\ \A k \in DOMAIN at_start.cache \ ScrapedKeys : cache[k] = at_start.cache[k]
            /\ Len(SelectSeq(events, IsCacheSet)) = updated_count)
    /\ [][LET sets == SelectSeq(NewEvents, IsCacheSet) IN
          /\ Len(sets) <= 1
          /\ cache' # cache => Len(sets) = 1 /\ pc' # "raise"
          /\ Len(sets) = 1 =>
                /\ pc = "diff"
                /\ sets[1].key = cache_key(all_products[idx])
                /\ sets[1].value = all_products[idx].product_price
                /\ sets[1].key \in DOMAIN cache => cache[sets[1].key] # sets[1].value
                /\ pc' # "raise" =>
                      /\ cache' = [k \in DOMAIN cache \cup {sets[1].key} |->
                                     IF k = sets[1].key THEN sets[1].value ELSE cache[k]]
                      /\ updated_count' = updated_count + 1]_vars

\* a run that scraped title A twice at the price the cache did not hold, and
\* did not scrape B, whose key the cache holds: one write, for the first A
C15_Witness ==
    /\ pc = "return"
    /\ Len(all_products) = 2
    /\ cache_key(all_products[1]) = cache_key(all_products[2])
    /\ ScrapedKeys # DOMAIN cache
    /\ ScrapedKeys \subseteq DOMAIN at_start.cache
    /\ at_start.cache # cache
    /\ updated_count = 1

\* what the cache and a list of records alone determine: the number of records
\* whose price is not the one held under their key when their turn comes, and
\* the cache once each such price has been put under its key
RECURSIVE Outcome(_, _)
Outcome(held, data) ==
    IF data = <<>> THEN [count |-> 0, cache |-> held]
    ELSE LET k == cache_key(Head(data))
             price == Head(data).product_price
             changed == k \notin DOMAIN held \/ held[k] # price
             now == IF changed
                    THEN [x \in DOMAIN held \cup {k} |-> IF x = k THEN price ELSE held[x]]
                    ELSE held
             rest == Outcome(now, Tail(data))
         IN [count |-> rest.count + (IF changed THEN 1 ELSE 0), cache |-> rest.cache]

\* C16: what a run that returns has produced is what the cache it started from
\* and its ScrapeResult determine, whatever storage.load() gave it: its
\* updated_count, its summary and notification, the cache it leaves, whether
\* it saved, and the records it saved.
C16_IndependenceFromStorage ==
    pc = "return" =>
        LET o == Outcome(at_start.cache, all_products)
            message == Message(Len(all_products), o.count)
        IN /\ updated_count = o.count
           /\ response = Some([message |-> message])
           /\ sent = <<message>>
           /\ cache = o.cache
           /\ SelectSeq(events, IsSave) =
                  IF o.count > 0 THEN <<[op |-> "save", data |-> all_products]>> ELSE <<>>
           /\ storage = IF o.count > 0 THEN storage_save(all_products) ELSE at_start.storage

\* a run has returned that loaded a dataset other than the one it scraped,
\* counted a change and saved
C16_Witness ==
    /\ pc = "return"
    /\ existing_data # <<>>
    /\ existing_data # all_products
    /\ all_products # <<>>
    /\ updated_count > 0
    /\ updated_count < Len(all_products)

\* the request before this one returned, with the ScrapeResult of this one
SameAsPrevious == previous = Some(all_products)

\* records of the run that share a title share their price
OnePricePerTitle ==
    \A m, n \in DOMAIN all_products :
        all_products[m].product_title = all_products[n].product_title
            => all_products[m].product_price = all_products[n].product_price

\* the run counted nothing, wrote nothing to the cache, saved nothing, and the
\* cache and the file are as it found them
NothingDone ==
    /\ updated_count = 0
    /\ SelectSeq(events, IsCacheSet) = <<>>
    /\ SelectSeq(events, IsSave) = <<>>
    /\ cache = at_start.cache
    /\ storage = at_start.storage
    /\ sent = <<Message(Len(all_products), 0)>>

\* C17 as stated: a run right after a run that returned with the same
\* ScrapeResult, whatever that is, reports updated_count = 0, writes nothing to
\* the cache, does not save, and leaves cache and storage as the first left them.
C17_RunTwice ==
    (pc = "return" /\ SameAsPrevious) => NothingDone

\* C17, amended: the same, for every ScrapeResult in which the records that
\* share a title also share their price.
C17_Idempotence ==
    (pc = "return" /\ SameAsPrevious /\ OnePricePerTitle) => NothingDone

\* the second of two runs over the same list, which holds one title twice
C17_Witness ==
    /\ pc = "return"
    /\ SameAsPrevious
    /\ OnePricePerTitle
    /\ Len(all_products) = 2
    /\ all_products[1].product_title = all_products[2].product_title
    /\ updated_count = 0

\* the request was let in and has ended in an exception
FailedRun == pc = "raise" /\ token = Some(API_TOKEN)

\* C18 as stated: a run that ends in an exception, wherever it was raised,
\* leaves the cache and the file exactly as they were when it began.
C18_FailedRunChangesNothing ==
    FailedRun => cache = at_start.cache /\ storage = at_start.storage

\* C18, amended: a run that ends in an exception raised while fetching or
\* extracting or by storage.load leaves the cache and the file as they were.
\* One that ends in an exception of a cache call or of storage.save leaves in
\* the cache every write made for the records before the failing call, and
\* the file as it was or, when save failed after opening it, cut short.
C18_FailedRun ==
    FailedRun =>
        LET sets == SelectSeq(events, IsCacheSet)
            saves == SelectSeq(events, IsSave)
            processed == SubSeq(all_products, 1, idx - 1)
        IN /\ (events = <<>> \/ (Len(events) = 2 /\ events[1] = [op |-> "load"])) =>
                 cache = at_start.cache /\ storage = at_start.storage
           /\ cache = Outcome(at_start.cache, processed).cache
           /\ saves = <<>> => storage = at_start.storage
           /\ saves # <<>> =>
                 /\ processed = all_products
                 /\ storage \in {at_start.storage, Some(File(<<>>, FALSE))}

\* the save of a run that wrote to the cache failed after opening the file,
\* which held a dataset: the cache has the new prices, the file nothing
C18_Witness ==
    /\ FailedRun
    /\ cache # at_start.cache
    /\ at_start.storage # None
    /\ at_start.storage[1].complete
    /\ storage = Some(File(<<>>, FALSE))

\* C19 as stated: after every run that returns, storage.load() returns exactly
\* the ScrapeResult of that run.
C19_StorageIsLatestScrape ==
    pc = "return" => storage_load = Returns(all_products)

\* C19, amended: after a run that returns with updated_count > 0,
\* storage.load() returns exactly the ScrapeResult of that run; a run that
\* returns with updated_count = 0 leaves the file as it found it, so that
\* storage.load() returns what it returned to that run, whatever was scraped.
C19_StorageFollowsUpdates ==
    pc = "return" =>
        /\ updated_count > 0 => storage_load = Returns(all_products)
        /\ updated_count = 0 =>
              /\ storage = at_start.storage
              /\ storage_load = Returns(existing_data)

\* a run has returned whose records are not the stored ones, none of them at
\* a price the cache did not hold: the file still holds the earlier dataset
C19_Witness ==
    /\ pc = "return"
    /\ updated_count = 0
    /\ all_products # <<>>
    /\ storage # None
    /\ storage_load.value # all_products
    /\ \E k \in DOMAIN pages : ~pages[k].fetched

\* the item nodes inside the container: every li below one of its lists whose
\* class attribute contains 'product', once each, in document order
RECURSIVE ItemNodesOf(_)
ItemNodesOf(uls) ==
    IF uls = <<>> THEN <<>> ELSE find_all_li(Head(uls)) \o ItemNodesOf(Tail(uls))

ItemNodes(shop_content) == ItemNodesOf(shop_content.uls)

\* C20: for a page whose container is present, parse_page returns one record
\* for each item node inside the container, in document order: as many records
\* as item nodes, the n-th record made from the n-th item node, whatever the
\* nesting of the lists and also for item nodes without the inner product region.
C20_OneRecordPerItem ==
    (pc = "load" /\ html # None /\ html[1].shop_content # None) =>
        LET items == ItemNodes(html[1].shop_content[1]) IN
        /\ Len(all_products) = Len(items)
        /\ \A n \in DOMAIN items :
              find_product_inner(items[n]) # None
                  => parse_product(items[n]).val = <<all_products[n]>>

====
